---- MODULE Spec2Model ----
(***************************************************************************)
(* Model of the differentiable-simulation core of the repository:          *)
(*   - controlled_simulate   (src/diff_sim/simulate.py)                    *)
(*   - simulate_trajectory, build_fd_cache, make_step_fn / step_fn_bwd     *)
(*                           (src/diff_sim/traj_opt/policy.py)             *)
(* Numbers are fixed-point integers.  The physics engine (mjx.step) is an  *)
(* external function; it is modelled by a one-degree-of-freedom saturating *)
(* point-mass integrator so that states stay in a finite range.            *)
(***************************************************************************)
EXTENDS Integers, Sequences, FiniteSets, TLC

\* ------------------------------------------------------------------ bounds
BatchSize == 2      \* number of batch elements handed to controlled_simulate
MaxSteps  == 3      \* largest cfg.nsteps / length explored
InitMax   == 1      \* |qpos| of an initial state
PosMax    == 3      \* saturation of qpos in the physics model
VelMax    == 3      \* saturation of qvel in the physics model
KeyMod    == 4      \* number of distinct PRNG keys

MaxEnvSteps == 3    \* environment steps taken after a reset
CostMax   == 2      \* largest single cost of a rollout step
MaxIter   == 3      \* largest max_iter handed to Policy.solve
ParamMax  == 2      \* |initial policy parameter|
RMax      == 2      \* |entry| of a control-cost weighting R
Unit      == 2      \* fixed-point resolution: 1.0 is Unit steps of eps

\* --------------------------------------------------------- program constants
DT       == 2       \* cfg.dt == mx.opt.timestep, in fixed-point units
NTotal   == 256     \* _cfg.ntotal
Eps      == 1       \* FDCache.eps: the finite-difference step, the unit of
                    \* floating values
PosLimit == 2       \* 2.2*pi threshold of is_terminal, in model units
VelLimit == 2       \* qvel threshold (10) of is_terminal, in model units
ForwardRewardWeight == 25  \* forward_reward_weight 1.25, in twentieths
CtrlCostWeight == 2        \* ctrl_cost_weight 0.1, in twentieths
HealthyReward  == 100      \* healthy_reward 5.0, in twentieths
HealthyZMin == 1           \* healthy_z_range[0]
HealthyZMax == 2           \* healthy_z_range[1]
NFrames == 5               \* physics_steps_per_control_step

VARIABLES
  call,      \* which entry point of the program is running
  nsteps,    \* ctx.cfg.nsteps / length
  net,       \* the controller network (policy parameters)
  key0,      \* the key argument of controlled_simulate
  x_inits,   \* batch of encoded initial states
  pc,        \* position inside the running entry point
  dx,        \* per batch element: the mjx.Data carried by the scan
  rkey,      \* per batch element: the PRNG key carried by the scan
  k,         \* number of scan iterations performed so far
  res,       \* per batch element: stacked outputs of the scan
  out,       \* per batch element: the returned (x, u, costs, t)
  nquery,    \* per batch element: controller queries made
  ncost,     \* per batch element: cost_fn evaluations made
  nphys,     \* per batch element: mjx.step calls made
  \* simulate_trajectory
  qpos_init, \* initial position
  length,    \* number of scan iterations requested
  tdx,       \* the mjx.Data carried by the scan
  states,    \* stacked states returned by the scan
  tcosts,    \* stacked running costs returned by the scan
  total_cost, \* the returned total cost
  \* build_fd_cache and the custom-vjp step of make_step_fn
  layout,    \* the leaves of the mjx.Data pytree, in traversal order
  target_fields, \* the target_fields argument ([none |-> TRUE] for None)
  fd_cache,  \* the FDCache returned by build_fd_cache
  dx_in,     \* input state of the step (pytree: one vector per leaf)
  u_in,      \* input control of the step
  dx_out,    \* output state of the forward step, kept as a residual
  g,         \* upstream gradient handed to step_fn_bwd (pytree)
  g_array,   \* the flattened upstream gradient
  Ju_array,  \* rows of the control Jacobian computed so far
  Jx_rows,   \* rows of the state Jacobian computed so far
  d_x,       \* returned gradient w.r.t. the input state (pytree)
  d_u,       \* returned gradient w.r.t. the control
  nevals,    \* physics steps run by the backward pass
  \* Context.__init__
  cfg_R,     \* the control-cost weighting cfg.R handed to the constructor
  ctx,       \* the Context object, once it exists
  \* the flatten/unflatten pair of ravel_pytree
  rlayout,   \* the leaves of the pytree that was raveled
  s_in,      \* a state (pytree)
  flat_s,    \* flatten(s_in)
  s_back,    \* unflatten(flatten(s_in))
  v_in,      \* a flat vector
  tree_v,    \* unflatten(v_in)
  v_back,    \* flatten(unflatten(v_in))
  \* Policy.solve
  solve_args, \* the arguments: model, optim, state, max_iter, and the loss
  model,     \* the policy parameters held by the loop
  state,     \* the optimizer state held by the loop
  iter,      \* the loop variable i
  g_params,  \* g, the gradient of the current iteration
  f_val,     \* the loss value of the current iteration
  opt_model, \* the model after the latest update (None before the first)
  trace,     \* the calls made so far: grad_loss, loss, optim.update
  printed,   \* the lines printed so far
  ret,       \* the returned model
  \* loss_fn_policy_det and loss_fn_policy_stoch
  loss_cfg,  \* ctx.cfg: batch, samples, nsteps
  costs,     \* the costs returned by the rollout, one row per rollout
  loss_det,  \* the value of loss_fn_policy_det
  loss_stoch, \* the value of loss_fn_policy_stoch
  \* Humanoid.reset and Humanoid.step
  env_cfg,   \* the constructor arguments kept by the environment
  heap,      \* the dict objects that exist; a State holds its metrics by reference
  env_in,    \* the State passed to the latest step
  env_before, \* the value env_in had when that step was called
  env_ret,   \* the State returned by the latest reset or step
  \* a second call of controlled_simulate
  calls_made, \* number of earlier calls of controlled_simulate that returned
  prev_out,  \* what the earlier call returned
  changed    \* the batch elements whose initial state differs from the earlier call

simVars == <<nsteps, key0, x_inits, dx, rkey, res, out, nquery, ncost, nphys>>
trajVars == <<qpos_init, length, tdx, states, tcosts, total_cost>>

fdVars == <<layout, target_fields, fd_cache, dx_in, u_in, dx_out, g, g_array,
            Ju_array, Jx_rows, d_x, d_u, nevals>>

ctxVars == <<cfg_R, ctx>>

codecVars == <<rlayout, s_in, flat_s, s_back, v_in, tree_v, v_back>>

solveVars == <<solve_args, model, state, iter, g_params, f_val, opt_model,
               trace, printed, ret>>

lossVars == <<loss_cfg, costs, loss_det, loss_stoch>>

envVars == <<env_cfg, heap, env_in, env_before, env_ret>>

repeatVars == <<calls_made, prev_out, changed>>

extVars == <<ctxVars, codecVars, solveVars, lossVars, envVars, repeatVars>>

vars == <<call, pc, k, net, simVars, trajVars, fdVars, extVars>>

Batch == 1..BatchSize

\* the initial velocities and the key arguments explored
InitVels == {-1, 0}
KeyArgs  == {0, 1}
Nets  == {"zero", "destab", "noisy"}

\* ------------------------------------------------------------------ helpers
Abs(n) == IF n < 0 THEN -n ELSE n
Clamp(n, m) == IF n > m THEN m ELSE IF n < -m THEN -m ELSE n
Last(s) == s[Len(s)]

\* mjx.make_data(mx): a fresh data record
make_data == [qpos |-> 0, qvel |-> 0, ctrl |-> 0, time |-> 0]

\* mjx.step(mx, dx): one physics step (semi-implicit Euler: the velocity is
\* advanced by the control force and a unit constant drift, then the position
\* by the new velocity)
mjx_step(d) ==
  LET v == Clamp(d.qvel + d.ctrl - 1, VelMax)
      p == Clamp(d.qpos + v, PosMax)
  IN  [qpos |-> p, qvel |-> v, ctrl |-> d.ctrl, time |-> d.time + DT]

\* jax.random.split(key): (new key, subkey)
split(key) == <<(2 * key + 1) % KeyMod, (2 * key + 2) % KeyMod>>

\* ctx.cbs.state_encoder(mx, dx)
state_encoder(d) == <<d.qpos, d.qvel>>

\* net(x, t): the policy network
Network(n, x, subkey) ==
  CASE n = "zero"   -> 0
    [] n = "destab" -> Clamp(x[1] + x[2], 2)
    [] n = "noisy"  -> (subkey % 3) - 1

\* ctx.cbs.controller(net, mx, dx, subkey): returns the data with ctrl set
controller(n, d, subkey) ==
  [d EXCEPT !.ctrl = Network(n, state_encoder(d), subkey)]

\* ctx.cbs.run_cost / control_cost / terminal_cost
run_cost(d)      == d.qpos * d.qpos
control_cost(d)  == d.ctrl * d.ctrl
terminal_cost(d) == 10 * d.qpos * d.qpos

\* ctx.cbs.is_terminal(mx, dx)
is_terminal(d) ==
  \/ (d.time \div DT) > NTotal - 1
  \/ Abs(d.qpos) > PosLimit
  \/ Abs(d.qvel) > VelLimit

\* a cost_fn that forgets the timestep
cost_fn_unscaled(d) == control_cost(d) + run_cost(d)

\* controlled_simulate.cost_fn
cost_fn(d) == control_cost(d) * DT + run_cost(d) * DT

\* a set_init that returns the decoded state without stepping it
set_init_nostep(x) ==
  [make_data EXCEPT !.qpos = x[1], !.qvel = x[2]]

\* controlled_simulate.set_init
set_init(x) ==
  mjx_step([make_data EXCEPT !.qpos = x[1], !.qvel = x[2]])

\* a scan over the whole horizon
ScanLengthFull == nsteps

\* length of the scan in controlled_simulate.rollout
ScanLength == nsteps - 1

\* a scan that also stops once some element is terminal
ScanDoneOrTerminal == k >= ScanLength \/ \E b \in Batch : is_terminal(dx[b])

\* the scan of rollout has run all its iterations
ScanDone == k >= ScanLength

EmptyOut == [x |-> <<>>, u |-> <<>>, costs |-> <<>>, t |-> <<>>]

\* values of the variables of an entry point that is not running
SimIdle ==
  /\ nsteps = 0 /\ key0 = 0
  /\ x_inits = [b \in Batch |-> <<0, 0>>]
  /\ dx = [b \in Batch |-> make_data]
  /\ rkey = [b \in Batch |-> 0]
  /\ res = [b \in Batch |-> <<>>]
  /\ out = [b \in Batch |-> EmptyOut]
  /\ nquery = [b \in Batch |-> 0]
  /\ ncost = [b \in Batch |-> 0]
  /\ nphys = [b \in Batch |-> 0]

TrajIdle ==
  /\ qpos_init = 0 /\ length = 0 /\ tdx = make_data
  /\ states = <<>> /\ tcosts = <<>> /\ total_cost = 0

NoCache == [status |-> "none", inner_idx |-> <<>>, sensitivity_mask |-> <<>>,
            dx_size |-> 0, num_u_dims |-> 0]

FdIdle ==
  /\ layout = <<>> /\ target_fields = [none |-> TRUE, names |-> {}]
  /\ fd_cache = NoCache
  /\ dx_in = <<>> /\ u_in = <<>> /\ dx_out = <<>>
  /\ g = <<>> /\ g_array = <<>>
  /\ Ju_array = <<>> /\ Jx_rows = <<>>
  /\ d_x = <<>> /\ d_u = <<>>
  /\ nevals = 0

\* no Context is being constructed
CtxIdle ==
  /\ cfg_R = <<>>
  /\ ctx = [made |-> FALSE, R |-> <<>>]

\* no round trip through ravel_pytree is running
CodecIdle ==
  /\ rlayout = <<>> /\ s_in = <<>> /\ flat_s = <<>> /\ s_back = <<>>
  /\ v_in = <<>> /\ tree_v = <<>> /\ v_back = <<>>

\* an optimizer state without content, and Python's None
EmptyState == [count |-> 0, mu |-> 0]
None == [none |-> TRUE, val |-> 0]
Some(x) == [none |-> FALSE, val |-> x]

NoArgs == [model |-> 0, optim |-> "none", state |-> EmptyState, max_iter |-> 0,
           target |-> 0]

\* Policy.solve is not running
SolveIdle ==
  /\ solve_args = NoArgs
  /\ model = 0 /\ state = EmptyState /\ iter = 0 /\ g_params = 0 /\ f_val = 0
  /\ opt_model = None /\ trace = <<>> /\ printed = <<>> /\ ret = None

\* a fraction num/den, den > 0: the value of a floating-point mean
Frac(n, d) == [num |-> n, den |-> d]

\* no loss function is running
LossIdle ==
  /\ loss_cfg = [batch |-> 0, samples |-> 0, nsteps |-> 0]
  /\ costs = <<>>
  /\ loss_det = Frac(0, 1) /\ loss_stoch = Frac(0, 1)

NoState == [pipeline_state |-> [x |-> 0, z |-> 0], obs |-> <<>>, reward |-> 0,
            done |-> 0, metrics |-> 0]

\* no environment exists
EnvIdle ==
  /\ env_cfg = [terminate_when_unhealthy |-> TRUE]
  /\ heap = <<>>
  /\ env_in = NoState /\ env_before = NoState /\ env_ret = NoState

\* no earlier call of controlled_simulate has been made
RepeatIdle ==
  /\ calls_made = 0
  /\ prev_out = [b \in Batch |-> EmptyOut]
  /\ changed = {}

ExtIdle == CtxIdle /\ CodecIdle /\ SolveIdle /\ LossIdle /\ EnvIdle /\ RepeatIdle

\* ---------------------------------------------------- controlled_simulate
InitSim ==
  /\ call = "controlled_simulate"
  /\ TrajIdle /\ FdIdle /\ ExtIdle
  /\ nsteps \in 1..MaxSteps
  /\ net \in Nets
  /\ key0 \in KeyArgs
  /\ x_inits \in [Batch -> (-InitMax..InitMax) \X InitVels]
  /\ pc = "start"
  /\ dx = [b \in Batch |-> make_data]
  /\ rkey = [b \in Batch |-> key0]
  /\ k = 0
  /\ res = [b \in Batch |-> <<>>]
  /\ out = [b \in Batch |-> EmptyOut]
  /\ nquery = [b \in Batch |-> 0]
  /\ ncost = [b \in Batch |-> 0]
  /\ nphys = [b \in Batch |-> 0]

\* a start that keeps the key left behind by an earlier call
SetInitKeepKey ==
  /\ call = "controlled_simulate" /\ pc = "start"
  /\ dx' = [b \in Batch |-> set_init(x_inits[b])]
  /\ rkey' = rkey
  /\ nphys' = [b \in Batch |-> nphys[b] + 1]
  /\ pc' = "scan"
  /\ UNCHANGED <<call, k, net, nsteps, key0, x_inits, res, out, nquery, ncost>>
  /\ UNCHANGED <<trajVars, fdVars, extVars>>

\* rollout, line 38: dx = set_init(x_init), vmapped over the batch
SetInit ==
  /\ call = "controlled_simulate" /\ pc = "start"
  /\ dx' = [b \in Batch |-> set_init(x_inits[b])]
  /\ rkey' = [b \in Batch |-> key0]
  /\ nphys' = [b \in Batch |-> nphys[b] + 1]
  /\ pc' = "scan"
  /\ UNCHANGED <<call, k, net, nsteps, key0, x_inits, res, out, nquery, ncost>>
  /\ UNCHANGED <<trajVars, fdVars, extVars>>

\* a step whose key chain is mixed with the state of its batch element
step_state_key(d, key) ==
  LET ks   == split((key + Abs(d.qpos)) % KeyMod)
      dc   == controller(net, d, ks[2])
      cost == cost_fn(dc)
      dn   == mjx_step(dc)
  IN  [dx |-> dn, key |-> ks[1],
       row |-> [x |-> state_encoder(dn), ctrl |-> dn.ctrl,
                cost |-> cost, t |-> dn.time]]

\* one iteration of step for one batch element: (new dx, new key, output row)
step(d, key) ==
  LET ks   == split(key)
      dc   == controller(net, d, ks[2])
      cost == cost_fn(dc)
      dn   == mjx_step(dc)
  IN  [dx |-> dn, key |-> ks[1],
       row |-> [x |-> state_encoder(dn), ctrl |-> dn.ctrl,
                cost |-> cost, t |-> dn.time]]

\* a scan whose controller reads the state of the first batch element
ScanStepFirstLane ==
  /\ call = "controlled_simulate" /\ pc = "scan"
  /\ ~ScanDone
  /\ LET lane(b) == step([dx[b] EXCEPT !.qpos = dx[1].qpos], rkey[b])
     IN  /\ dx' = [b \in Batch |-> lane(b).dx]
         /\ rkey' = [b \in Batch |-> lane(b).key]
         /\ res' = [b \in Batch |-> Append(res[b], lane(b).row)]
  /\ nquery' = [b \in Batch |-> nquery[b] + 1]
  /\ ncost' = [b \in Batch |-> ncost[b] + 1]
  /\ nphys' = [b \in Batch |-> nphys[b] + 1]
  /\ k' = k + 1
  /\ UNCHANGED <<call, pc, net, nsteps, key0, x_inits, out>>
  /\ UNCHANGED <<trajVars, fdVars, extVars>>

\* one iteration of the scan, vmapped over the batch
ScanStep ==
  /\ call = "controlled_simulate" /\ pc = "scan"
  /\ ~ScanDone
  /\ dx' = [b \in Batch |-> step(dx[b], rkey[b]).dx]
  /\ rkey' = [b \in Batch |-> step(dx[b], rkey[b]).key]
  /\ res' = [b \in Batch |-> Append(res[b], step(dx[b], rkey[b]).row)]
  /\ nquery' = [b \in Batch |-> nquery[b] + 1]
  /\ ncost' = [b \in Batch |-> ncost[b] + 1]
  /\ nphys' = [b \in Batch |-> nphys[b] + 1]
  /\ k' = k + 1
  /\ UNCHANGED <<call, pc, net, nsteps, key0, x_inits, out>>
  /\ UNCHANGED <<trajVars, fdVars, extVars>>

\* rollout, lines 40-45: assemble the returned x, u, costs, t
Assemble(b) ==
  LET n  == Len(res[b])
      xs == [i \in 1..n |-> res[b][i].x]
      us == [i \in 1..n |-> res[b][i].ctrl]
      cs == [i \in 1..n |-> res[b][i].cost]
      ts == [i \in 1..n |-> res[b][i].t]
  IN  [x     |-> <<x_inits[b]>> \o xs,
       u     |-> us,
       costs |-> Append(cs, terminal_cost(dx[b])),
       t     |-> <<DT>> \o ts]

Finish ==
  /\ call = "controlled_simulate" /\ pc = "scan"
  /\ ScanDone
  /\ out' = [b \in Batch |-> Assemble(b)]
  /\ pc' = "done"
  /\ UNCHANGED <<call, k, net, nsteps, key0, x_inits, dx, rkey, res,
                 nquery, ncost, nphys>>
  /\ UNCHANGED <<trajVars, fdVars, extVars>>

\* ---------------------------------------------------- simulate_trajectory
\* running_cost_fn / terminal_cost_fn of the trajectory-optimisation example
running_cost_fn(d)  == d.qpos * d.qpos + d.ctrl * d.ctrl
terminal_cost_fn(d) == 100 * d.qpos * d.qpos

\* set_control_fn(dx, u)
set_control(d, u) == [d EXCEPT !.ctrl = u]

\* step_fn(dx, u): forward pass of the custom-vjp step
step_fn(d, u) == mjx_step(set_control(d, u))

RECURSIVE SumSeq(_)
SumSeq(s) == IF s = <<>> THEN 0 ELSE s[1] + SumSeq(Tail(s))

InitTraj ==
  /\ call = "simulate_trajectory"
  /\ SimIdle /\ FdIdle /\ ExtIdle
  /\ net \in Nets
  /\ qpos_init \in -InitMax..InitMax
  /\ length \in 0..MaxSteps
  /\ pc = "start"
  /\ k = 0
  /\ tdx = make_data
  /\ states = <<>>
  /\ tcosts = <<>>
  /\ total_cost = 0

\* lines 244-245: dx0 = make_data(mx) with qpos set
TrajStart ==
  /\ call = "simulate_trajectory" /\ pc = "start"
  /\ tdx' = [make_data EXCEPT !.qpos = qpos_init]
  /\ pc' = "scan"
  /\ UNCHANGED <<call, k, net, qpos_init, length, states, tcosts, total_cost>>
  /\ UNCHANGED <<simVars, fdVars, extVars>>

\* scan_step_fn: (new dx, (state, c))
scan_step_fn(d) ==
  LET x  == <<d.qpos, d.qvel>>
      u  == Network(net, x, d.time \div DT)
      dn == step_fn(d, u)
  IN  [dx |-> dn, state |-> <<dn.qpos, dn.qvel>>, c |-> running_cost_fn(dn)]

TrajStep ==
  /\ call = "simulate_trajectory" /\ pc = "scan"
  /\ k < length
  /\ tdx' = scan_step_fn(tdx).dx
  /\ states' = Append(states, scan_step_fn(tdx).state)
  /\ tcosts' = Append(tcosts, scan_step_fn(tdx).c)
  /\ k' = k + 1
  /\ UNCHANGED <<call, pc, net, qpos_init, length, total_cost>>
  /\ UNCHANGED <<simVars, fdVars, extVars>>

\* line 247: total_cost = sum(costs) + terminal_cost_fn(dx_final)
TrajFinish ==
  /\ call = "simulate_trajectory" /\ pc = "scan"
  /\ k >= length
  /\ total_cost' = SumSeq(tcosts) + terminal_cost_fn(tdx)
  /\ pc' = "done"
  /\ UNCHANGED <<call, k, net, qpos_init, length, tdx, states, tcosts>>
  /\ UNCHANGED <<simVars, fdVars, extVars>>

InitRollouts == InitSim \/ InitTraj

NextSim == SetInit \/ ScanStep \/ Finish \/ TrajStart \/ TrajStep \/ TrajFinish

SpecSim == InitRollouts /\ [][NextSim]_vars

\* ------------------------------------------------ pytrees and ravel_pytree
\* A pytree of the shape of mjx.Data is a sequence of leaves in traversal
\* order; a leaf is a vector.  A layout describes the leaves: the names on
\* the path to the leaf, its size, and whether its dtype is integer.
\* Floating values are counted in steps of eps; 1.0 is Unit steps.
Leaf(path, size, int) == [path |-> path, size |-> size, int |-> int]

LayoutSmall ==
  << Leaf(<<"time">>, 1, FALSE), Leaf(<<"qpos">>, 1, FALSE),
     Leaf(<<"qvel">>, 1, FALSE), Leaf(<<"ctrl">>, 1, FALSE),
     Leaf(<<"qacc">>, 1, FALSE) >>

LayoutFull ==
  << Leaf(<<"ne">>, 1, TRUE), Leaf(<<"time">>, 1, FALSE),
     Leaf(<<"qpos">>, 1, FALSE), Leaf(<<"qvel">>, 1, FALSE),
     Leaf(<<"ctrl">>, 2, FALSE), Leaf(<<"mocap_pos">>, 0, FALSE),
     Leaf(<<"contact", "pos">>, 1, FALSE) >>

Layouts == {LayoutSmall, LayoutFull}

\* 0-based indexing of arrays
At(s, i) == s[i + 1]

\* astype(int): truncation toward zero of a value counted in steps of eps
Trunc(n) == IF n >= 0 THEN n \div Unit ELSE -((-n) \div Unit)

RECURSIVE Concat(_)
Concat(ss) == IF ss = <<>> THEN <<>> ELSE ss[1] \o Concat(Tail(ss))

\* ravel_pytree(tree)[0]: the leaves concatenated, promoted to float
ravel_pytree(L, tree) ==
  Concat([i \in 1..Len(L) |->
            [j \in 1..Len(tree[i]) |->
               IF L[i].int THEN tree[i][j] * Unit ELSE tree[i][j]]])

\* number of flat entries before leaf i (1-based leaf number)
RECURSIVE FlatOffset(_, _)
FlatOffset(L, i) == IF i <= 1 THEN 0 ELSE FlatOffset(L, i - 1) + L[i - 1].size

\* an unravel that hands the flat entries to the leaves without a cast
unravel_dx_nocast(L, flat) ==
  [i \in 1..Len(L) |->
     [j \in 1..L[i].size |-> flat[FlatOffset(L, i) + j]]]

\* unravel_dx: the flat vector cut into leaves, each cast to its dtype
unravel_dx(L, flat) ==
  [i \in 1..Len(L) |->
     [j \in 1..L[i].size |->
        IF L[i].int THEN Trunc(flat[FlatOffset(L, i) + j])
                    ELSE flat[FlatOffset(L, i) + j]]]

\* mjx.make_data(mx) as a pytree of the layout
make_data_tree(L) == [i \in 1..Len(L) |-> [j \in 1..L[i].size |-> 0]]

\* ------------------------------------------------------------ build_fd_cache
\* np.cumsum(sizes)
RECURSIVE cumsum(_)
cumsum(sizes) ==
  IF sizes = <<>> THEN <<>>
  ELSE LET front == cumsum(SubSeq(sizes, 1, Len(sizes) - 1))
       IN  Append(front, (IF front = <<>> THEN 0 ELSE Last(front)) + Last(sizes))

\* np.arange(start, end)
arange(start, end) == [j \in 1..(IF end > start THEN end - start ELSE 0) |-> start + j - 1]

\* lines 86-89: some level of the path has a name in target_fields
name_matches(path, fields) == \E lv \in 1..Len(path) : path[lv] \in fields

\* a leaf range that takes one index too many
leaf_index_range_inclusive(indices, leaf_idx) ==
  LET start == IF leaf_idx = 0 THEN 0 ELSE At(indices, leaf_idx - 1)
      end   == At(indices, leaf_idx)
  IN  [j \in 1..(end - start + 1) |-> start + j - 1]

\* lines 93-96, leaf_idx 0-based
leaf_index_range(indices, leaf_idx) ==
  LET start == IF leaf_idx = 0 THEN 0 ELSE At(indices, leaf_idx - 1)
      end   == At(indices, leaf_idx)
  IN  arange(start, end)

\* jnp.zeros_like(dx_array).at[inner_idx].set(1.0)
mask_of(dx_size, inner_idx) ==
  [j \in 1..dx_size |->
     IF \E n \in 1..Len(inner_idx) : inner_idx[n] = j - 1 THEN 1 ELSE 0]

build_fd_cache(L, dx_ref, u_ref, target) ==
  LET fields   == IF target.none THEN {"qpos", "qvel", "ctrl"} ELSE target.names
      dx_array == ravel_pytree(L, dx_ref)
      sizes    == [i \in 1..Len(L) |-> Len(dx_ref[i])]
      indices  == cumsum(sizes)
      \* idx_target_state, as the 0-based leaf numbers in ascending order
      matching == {i \in 0..(Len(L) - 1) : name_matches(At(L, i).path, fields)}
      inner_idx_list ==
        [i \in 0..(Len(L) - 1) |->
           IF i \in matching THEN leaf_index_range(indices, i) ELSE <<>>]
      inner    == Concat([n \in 1..Len(L) |-> inner_idx_list[n - 1]])
  IN  IF matching = {}
      THEN \* np.concatenate of an empty list raises ValueError
           [NoCache EXCEPT !.status = "ValueError"]
      ELSE [status |-> "ok", inner_idx |-> inner,
            sensitivity_mask |-> mask_of(Len(dx_array), inner),
            dx_size |-> Len(dx_array), num_u_dims |-> Len(u_ref)]

\* ------------------------------------------------- make_step_fn: step_fn
\* 1-based number of the leaf with the given one-level path
LeafOf(L, name) == CHOOSE i \in 1..Len(L) : L[i].path = <<name>>

\* a set_control that adds u to the stored control
set_control_tree_add(L, tree, u) ==
  [tree EXCEPT ![LeafOf(L, "ctrl")] =
     [n \in 1..Len(u) |-> tree[LeafOf(L, "ctrl")][n] + u[n]]]

\* set_control_fn(dx, u): dx.replace(ctrl=dx.ctrl.at[:].set(u))
set_control_tree(L, tree, u) == [tree EXCEPT ![LeafOf(L, "ctrl")] = u]

\* mjx.step(mx, dx) on a pytree: the physics of mjx_step, driven by the sum
\* of the controls; qacc is the velocity change; the integer leaf ne counts
\* the constraint that is active while the position is positive; other
\* leaves are kept
mjx_step_tree(L, tree) ==
  LET d  == [qpos |-> tree[LeafOf(L, "qpos")][1],
             qvel |-> tree[LeafOf(L, "qvel")][1],
             ctrl |-> SumSeq(tree[LeafOf(L, "ctrl")]),
             time |-> tree[LeafOf(L, "time")][1]]
      dn == mjx_step(d)
  IN  [i \in 1..Len(L) |->
         IF L[i].path = <<"qpos">> THEN <<dn.qpos>>
         ELSE IF L[i].path = <<"qvel">> THEN <<dn.qvel>>
         ELSE IF L[i].path = <<"time">> THEN <<dn.time>>
         ELSE IF L[i].path = <<"qacc">> THEN <<dn.qvel - d.qvel>>
         ELSE IF L[i].path = <<"ne">> THEN <<IF dn.qpos > 0 THEN 1 ELSE 0>>
         ELSE tree[i]]

\* step_fn(dx, u) on pytrees (lines 131-140)
step_fn_tree(L, tree, u) == mjx_step_tree(L, set_control_tree(L, tree, u))

\* --------------------------------------------- make_step_fn: step_fn_bwd
ZeroVec(n) == [j \in 1..n |-> 0]

\* a fix_leaf that passes every leaf of g through
fix_leaf_keep(d_leaf, g_leaf) == g_leaf.val

\* lines 155-159: a float0 leaf of g becomes zeros of the state leaf's shape
fix_leaf(d_leaf, g_leaf) ==
  IF g_leaf.float0 THEN ZeroVec(Len(d_leaf)) ELSE g_leaf.val

\* jax.tree_map(fix_leaf, diff_tree, grad_tree)
map_g_to_dinput(diff_tree, grad_tree) ==
  [i \in 1..Len(diff_tree) |-> fix_leaf(diff_tree[i], grad_tree[i])]

\* a difference quotient that is not multiplied by the mask
unmasked_difference(mask, perturbed, base) ==
  [j \in 1..Len(mask) |-> (perturbed[j] - base[j]) \div Eps]

\* sensitivity_mask * (dx_perturbed_array - dx_out_array) / eps
masked_difference(mask, perturbed, base) ==
  [j \in 1..Len(mask) |-> (mask[j] * (perturbed[j] - base[j])) \div Eps]

\* lines 180-185, i 0-based
fdu_plus(i) ==
  LET u_in_eps == [n \in 1..Len(u_in) |-> IF n = i + 1 THEN u_in[n] + Eps ELSE u_in[n]]
      dx_perturbed == step_fn_tree(layout, dx_in, u_in_eps)
  IN  masked_difference(fd_cache.sensitivity_mask,
                        ravel_pytree(layout, dx_perturbed),
                        ravel_pytree(layout, dx_out))

\* a state row that perturbs the first control coordinate as well
fdx_for_index_both(idx) ==
  LET dx_array == ravel_pytree(layout, dx_in)
      perturbed == [j \in 1..Len(dx_array) |->
                      IF j = idx + 1 THEN dx_array[j] + Eps ELSE dx_array[j]]
      u_in_eps == [n \in 1..Len(u_in) |-> IF n = 1 THEN u_in[n] + Eps ELSE u_in[n]]
      dx_perturbed == step_fn_tree(layout, unravel_dx(layout, perturbed), u_in_eps)
  IN  masked_difference(fd_cache.sensitivity_mask,
                        ravel_pytree(layout, dx_perturbed),
                        ravel_pytree(layout, dx_out))

\* lines 192-197, idx a 0-based flat index
fdx_for_index(idx) ==
  LET dx_array == ravel_pytree(layout, dx_in)
      perturbed == [j \in 1..Len(dx_array) |->
                      IF j = idx + 1 THEN dx_array[j] + Eps ELSE dx_array[j]]
      dx_in_perturbed == unravel_dx(layout, perturbed)
      dx_perturbed == step_fn_tree(layout, dx_in_perturbed, u_in)
  IN  masked_difference(fd_cache.sensitivity_mask,
                        ravel_pytree(layout, dx_perturbed),
                        ravel_pytree(layout, dx_out))

\* a scatter that writes the rows at the front of the matrix
scatter_rows_front(subset_rows, subset_indices, dim) ==
  [r \in 1..dim |-> IF r <= Len(subset_rows) THEN subset_rows[r] ELSE [j \in 1..dim |-> 0]]

\* lines 203-205: rows written at subset_indices of a zero matrix
scatter_rows(subset_rows, subset_indices, dim) ==
  [r \in 1..dim |->
     IF \E n \in 1..Len(subset_indices) : subset_indices[n] = r - 1
     THEN subset_rows[CHOOSE n \in 1..Len(subset_indices) : subset_indices[n] = r - 1]
     ELSE ZeroVec(dim)]

RECURSIVE DotUpTo(_, _, _)
DotUpTo(a, b, n) == IF n = 0 THEN 0 ELSE DotUpTo(a, b, n - 1) + a[n] * b[n]

\* M @ v
matvec(M, v) == [i \in 1..Len(M) |-> DotUpTo(M[i], v, Len(M[i]))]

\* ----------------------------------------------------- the FD entry point
GVals == {-1, 1}
UVals == {0, 1}
TargetArgs ==
  { [none |-> TRUE,  names |-> {}],
    [none |-> FALSE, names |-> {"qpos"}],
    [none |-> FALSE, names |-> {"qvel", "foo"}],
    [none |-> FALSE, names |-> {"foo"}],
    [none |-> FALSE, names |-> {"contact"}],
    [none |-> FALSE, names |-> {"ne", "qpos"}],
    [none |-> FALSE, names |-> {"mocap_pos"}],
    [none |-> FALSE, names |-> {}] }

FlatDim(L) == FlatOffset(L, Len(L) + 1)

\* a state of the layout: given position and velocity, integer leaves 1
StateTree(L, p, v) ==
  [i \in 1..Len(L) |->
     IF L[i].path = <<"qpos">> THEN <<p>>
     ELSE IF L[i].path = <<"qvel">> THEN <<v>>
     ELSE [j \in 1..L[i].size |-> IF L[i].int THEN 1 ELSE 0]]

\* an upstream gradient of the layout: float0 on integer leaves
GradTree(L, gf) ==
  [i \in 1..Len(L) |->
     IF L[i].int THEN [float0 |-> TRUE, val |-> <<>>]
     ELSE [float0 |-> FALSE,
           val |-> [j \in 1..L[i].size |-> gf[FlatOffset(L, i) + j]]]]

InitFD ==
  /\ call = "step_fn"
  /\ SimIdle /\ TrajIdle /\ ExtIdle
  /\ net = "zero"
  /\ pc = "build"
  /\ k = 0
  /\ layout \in Layouts
  /\ target_fields \in TargetArgs
  /\ fd_cache = NoCache
  /\ \E p \in -InitMax..InitMax, v \in InitVels :
       dx_in = StateTree(layout, p, v)
  /\ u_in \in [1..layout[LeafOf(layout, "ctrl")].size -> UVals]
  /\ \E gf \in [1..FlatDim(layout) -> GVals] : g = GradTree(layout, gf)
  /\ dx_out = <<>> /\ g_array = <<>>
  /\ Ju_array = <<>> /\ Jx_rows = <<>>
  /\ d_x = <<>> /\ d_u = <<>>
  /\ nevals = 0

\* make_loss, lines 261-271: the cache is built once from reference values
BuildFdCache ==
  /\ call = "step_fn" /\ pc = "build"
  /\ LET dx_ref == make_data_tree(layout)
         u_ref  == ZeroVec(layout[LeafOf(layout, "ctrl")].size)
         cache  == build_fd_cache(layout, dx_ref, u_ref, target_fields)
     IN  /\ fd_cache' = cache
         /\ pc' = IF cache.status = "ok" THEN "fwd" ELSE "raised"
  /\ UNCHANGED <<call, k, net, layout, target_fields, dx_in, u_in, dx_out, g,
                 g_array, Ju_array, Jx_rows, d_x, d_u, nevals>>
  /\ UNCHANGED <<simVars, trajVars, extVars>>

\* step_fn_fwd: the forward step, its inputs and output kept as residuals
StepFnFwd ==
  /\ call = "step_fn" /\ pc = "fwd"
  /\ dx_out' = step_fn_tree(layout, dx_in, u_in)
  /\ pc' = "bwd"
  /\ UNCHANGED <<call, k, net, layout, target_fields, fd_cache, dx_in, u_in, g,
                 g_array, Ju_array, Jx_rows, d_x, d_u, nevals>>
  /\ UNCHANGED <<simVars, trajVars, extVars>>

\* step_fn_bwd, lines 151-175: g is mapped and flattened
BwdFlatten ==
  /\ call = "step_fn" /\ pc = "bwd"
  /\ g_array' = ravel_pytree(layout, map_g_to_dinput(dx_in, g))
  /\ pc' = "fd"
  /\ k' = 0
  /\ UNCHANGED <<call, net, layout, target_fields, fd_cache, dx_in, u_in, dx_out,
                 g, Ju_array, Jx_rows, d_x, d_u, nevals>>
  /\ UNCHANGED <<simVars, trajVars, extVars>>

\* finite differences over every flat index of the state
fdx_indices_all == [j \in 1..fd_cache.dx_size |-> j - 1]

\* the indices vmapped over by line 200
fdx_indices == fd_cache.inner_idx

\* line 187: one lane of vmap(fdu_plus)(arange(num_u_dims))
FduPlus ==
  /\ call = "step_fn" /\ pc = "fd"
  /\ k < fd_cache.num_u_dims
  /\ Ju_array' = Append(Ju_array, fdu_plus(k))
  /\ nevals' = nevals + 1
  /\ k' = k + 1
  /\ UNCHANGED <<call, pc, net, layout, target_fields, fd_cache, dx_in, u_in,
                 dx_out, g, g_array, Jx_rows, d_x, d_u>>
  /\ UNCHANGED <<simVars, trajVars, extVars>>

\* line 200: one lane of vmap(fdx_for_index)(inner_idx)
FdxForIndex ==
  /\ call = "step_fn" /\ pc = "fd"
  /\ k >= fd_cache.num_u_dims
  /\ k - fd_cache.num_u_dims < Len(fdx_indices)
  /\ Jx_rows' = Append(Jx_rows, fdx_for_index(At(fdx_indices, k - fd_cache.num_u_dims)))
  /\ nevals' = nevals + 1
  /\ k' = k + 1
  /\ UNCHANGED <<call, pc, net, layout, target_fields, fd_cache, dx_in, u_in,
                 dx_out, g, g_array, Ju_array, d_x, d_u>>
  /\ UNCHANGED <<simVars, trajVars, extVars>>

\* lines 207-219: scatter, multiply with g, unflatten, return
Combine ==
  /\ call = "step_fn" /\ pc = "fd"
  /\ k >= fd_cache.num_u_dims + Len(fdx_indices)
  /\ LET dx_dim   == Len(ravel_pytree(layout, dx_in))
         Jx_array == scatter_rows(Jx_rows, fd_cache.inner_idx, dx_dim)
     IN  /\ d_u' = matvec(Ju_array, g_array)
         /\ d_x' = unravel_dx(layout, matvec(Jx_array, g_array))
  /\ pc' = "done"
  /\ UNCHANGED <<call, k, net, layout, target_fields, fd_cache, dx_in, u_in,
                 dx_out, g, g_array, Ju_array, Jx_rows, nevals>>
  /\ UNCHANGED <<simVars, trajVars, extVars>>

NextFD == BuildFdCache \/ StepFnFwd \/ BwdFlatten \/ FduPlus \/ FdxForIndex \/ Combine

SpecFD == InitFD /\ [][NextFD]_vars

\* ------------------------------------------------------ Context.__init__
\* the 2x2 weightings handed to the constructor
Matrices ==
  {<<<<a, b>>, <<c, d>>>> : a \in -RMax..RMax, b \in -RMax..RMax,
                            c \in -RMax..RMax, d \in -RMax..RMax}

\* jnp.linalg.eigh symmetrizes its input, (R + R^T)/2; counted in halves
symmetrize(R) == [i \in 1..2 |-> [j \in 1..2 |-> R[i][j] + R[j][i]]]

Sign(x) == IF x > 0 THEN 1 ELSE IF x < 0 THEN -1 ELSE 0

\* jnp.linalg.eigh(R)[0]: the eigenvalues (T -+ sqrt(D))/2 of the symmetrized
\* matrix in ascending order, T the trace and D = (s11 - s22)^2 + 4*s12^2;
\* each is kept by its sign, which is all the comparison with 0 reads
eigh_values(R) ==
  LET S == symmetrize(R)
      T == S[1][1] + S[2][2]
      D == (S[1][1] - S[2][2]) * (S[1][1] - S[2][2]) + 4 * S[1][2] * S[1][2]
  IN  << IF T > 0 /\ T * T > D THEN 1
         ELSE IF T >= 0 /\ T * T = D THEN 0 ELSE -1,
         IF T < 0 /\ T * T > D THEN -1
         ELSE IF T <= 0 /\ T * T = D THEN 0 ELSE 1 >>

\* a validation that lets a zero eigenvalue through
all_nonnegative(w) == \A i \in 1..Len(w) : w[i] >= 0

\* jnp.all(w > 0) (line 103)
all_positive(w) == \A i \in 1..Len(w) : w[i] > 0

InitCtx ==
  /\ call = "Context" /\ pc = "init" /\ k = 0 /\ net = "zero"
  /\ cfg_R \in Matrices
  /\ ctx = [made |-> FALSE, R |-> <<>>]
  /\ SimIdle /\ TrajIdle /\ FdIdle /\ CodecIdle /\ SolveIdle /\ LossIdle /\ EnvIdle
  /\ RepeatIdle

\* Context.__init__ (lines 100-105): the assert either raises out of the
\* constructor, so that no object is returned, or the object exists
ContextInit ==
  /\ call = "Context" /\ pc = "init"
  /\ IF all_positive(eigh_values(cfg_R))
       THEN /\ ctx' = [made |-> TRUE, R |-> cfg_R]
            /\ pc' = "constructed"
       ELSE /\ ctx' = ctx
            /\ pc' = "AssertionError"
  /\ UNCHANGED <<call, k, net, cfg_R>>
  /\ UNCHANGED <<simVars, trajVars, fdVars, codecVars, solveVars, lossVars, envVars, repeatVars>>

NextCtx == ContextInit

SpecCtx == InitCtx /\ [][NextCtx]_vars

\* ------------------------------------- ravel_pytree: flatten and unflatten
\* flat vectors: a flattened state with one entry moved by up to one unit
FlatVectors(L) ==
  {[j \in 1..FlatDim(L) |->
      ravel_pytree(L, StateTree(L, p, v))[j] + (IF j = kk THEN e ELSE 0)] :
     p \in -InitMax..InitMax, v \in InitVels, kk \in 1..FlatDim(L), e \in -Unit..Unit}

InitCodec ==
  /\ call = "ravel_pytree" /\ pc = "flatten_s" /\ k = 0 /\ net = "zero"
  /\ rlayout \in Layouts
  /\ \E p \in -InitMax..InitMax, v \in InitVels : s_in = StateTree(rlayout, p, v)
  /\ v_in \in FlatVectors(rlayout)
  /\ flat_s = <<>> /\ s_back = <<>> /\ tree_v = <<>> /\ v_back = <<>>
  /\ SimIdle /\ TrajIdle /\ FdIdle /\ CtxIdle /\ SolveIdle /\ LossIdle /\ EnvIdle
  /\ RepeatIdle

\* policy.py line 71 / 193: dx_array, unravel_dx = ravel_pytree(dx)
FlattenState ==
  /\ call = "ravel_pytree" /\ pc = "flatten_s"
  /\ flat_s' = ravel_pytree(rlayout, s_in)
  /\ pc' = "unflatten_s"
  /\ UNCHANGED <<call, k, net, rlayout, s_in, s_back, v_in, tree_v, v_back>>
  /\ UNCHANGED <<simVars, trajVars, fdVars, ctxVars, solveVars, lossVars, envVars, repeatVars>>

\* unravel_dx applied to a flattened state
UnflattenState ==
  /\ call = "ravel_pytree" /\ pc = "unflatten_s"
  /\ s_back' = unravel_dx(rlayout, flat_s)
  /\ pc' = "unflatten_v"
  /\ UNCHANGED <<call, k, net, rlayout, s_in, flat_s, v_in, tree_v, v_back>>
  /\ UNCHANGED <<simVars, trajVars, fdVars, ctxVars, solveVars, lossVars, envVars, repeatVars>>

\* policy.py lines 195 / 216: unravel_dx applied to a flat vector
UnflattenVector ==
  /\ call = "ravel_pytree" /\ pc = "unflatten_v"
  /\ tree_v' = unravel_dx(rlayout, v_in)
  /\ pc' = "flatten_v"
  /\ UNCHANGED <<call, k, net, rlayout, s_in, flat_s, s_back, v_in, v_back>>
  /\ UNCHANGED <<simVars, trajVars, fdVars, ctxVars, solveVars, lossVars, envVars, repeatVars>>

\* the tree is flattened again
FlattenTree ==
  /\ call = "ravel_pytree" /\ pc = "flatten_v"
  /\ v_back' = ravel_pytree(rlayout, tree_v)
  /\ pc' = "done"
  /\ UNCHANGED <<call, k, net, rlayout, s_in, flat_s, s_back, v_in, tree_v>>
  /\ UNCHANGED <<simVars, trajVars, fdVars, ctxVars, solveVars, lossVars, envVars, repeatVars>>

NextCodec == FlattenState \/ UnflattenState \/ UnflattenVector \/ FlattenTree

SpecCodec == InitCodec /\ [][NextCodec]_vars

\* ------------------------------------------------------------ Policy.solve
\* self.loss(params, static): a quadratic bowl around the target
loss(params, target) == (params - target) * (params - target)

\* self.grad_loss(params, static) = jax.grad(loss)
grad_loss(params, target) == 2 * (params - target)

Optims == {"sgd", "momentum"}

\* optim.init(params)
optim_init(optim) == EmptyState

\* optim.update(g, state, model): <<updates, new state>>; sgd has an empty
\* state, momentum keeps a step count and a decayed sum of gradients; both
\* step one unit against the sign of their direction
optim_update(optim, gr, st) ==
  IF optim = "sgd" THEN << -Sign(gr), st >>
  ELSE LET mu == gr + Trunc(st.mu)
       IN  << -Sign(mu), [count |-> st.count + 1, mu |-> mu] >>

\* equinox.apply_updates(model, updates)
apply_updates(m, updates) == m + updates

\* a loop that also stops once the gradient vanishes
SolveContinueUntilConverged ==
  iter < solve_args.max_iter /\ grad_loss(model, solve_args.target) # 0

\* for i in range(max_iter) (line 301)
SolveContinue == iter < solve_args.max_iter

InitSolve ==
  /\ call = "solve" /\ pc = "loop" /\ k = 0 /\ net = "zero"
  /\ \E m \in -ParamMax..ParamMax, o \in Optims, n \in 0..MaxIter, t \in {0, 1} :
       /\ solve_args = [model |-> m, optim |-> o, state |-> optim_init(o),
                        max_iter |-> n, target |-> t]
       /\ model = m
       /\ state = optim_init(o)
  /\ iter = 0 /\ g_params = 0 /\ f_val = 0
  /\ opt_model = None /\ trace = <<>> /\ printed = <<>> /\ ret = None
  /\ SimIdle /\ TrajIdle /\ FdIdle /\ CtxIdle /\ CodecIdle /\ LossIdle /\ EnvIdle
  /\ RepeatIdle

\* lines 302-303: params of the current model, g = self.grad_loss(params, static)
SolveGrad ==
  /\ call = "solve" /\ pc = "loop"
  /\ SolveContinue
  /\ g_params' = grad_loss(model, solve_args.target)
  /\ trace' = Append(trace, [op |-> "grad_loss", i |-> iter, params |-> model,
                             state_in |-> state, state_out |-> state])
  /\ pc' = "loss"
  /\ UNCHANGED <<call, k, net, solve_args, model, state, iter, f_val, opt_model,
                 printed, ret>>
  /\ UNCHANGED <<simVars, trajVars, fdVars, ctxVars, codecVars, lossVars, envVars, repeatVars>>

\* line 304: f_val = self.loss(params, static)
SolveLoss ==
  /\ call = "solve" /\ pc = "loss"
  /\ f_val' = loss(model, solve_args.target)
  /\ trace' = Append(trace, [op |-> "loss", i |-> iter, params |-> model,
                             state_in |-> state, state_out |-> state])
  /\ pc' = "update"
  /\ UNCHANGED <<call, k, net, solve_args, model, state, iter, g_params,
                 opt_model, printed, ret>>
  /\ UNCHANGED <<simVars, trajVars, fdVars, ctxVars, codecVars, lossVars, envVars, repeatVars>>
\* an update that hands the optimizer the state it was first given
SolveUpdateFirstState ==
  /\ call = "solve" /\ pc = "update"
  /\ LET upd == optim_update(solve_args.optim, g_params, solve_args.state)
         new == apply_updates(model, upd[1])
     IN  /\ state' = upd[2]
         /\ model' = new
         /\ opt_model' = Some(new)
         /\ trace' = Append(trace, [op |-> "update", i |-> iter, params |-> model,
                                    state_in |-> solve_args.state, state_out |-> upd[2]])
  /\ printed' = Append(printed, [i |-> iter, cost |-> f_val])
  /\ iter' = iter + 1
  /\ pc' = "loop"
  /\ UNCHANGED <<call, k, net, solve_args, g_params, f_val, ret>>
  /\ UNCHANGED <<simVars, trajVars, fdVars, ctxVars, codecVars, lossVars, envVars, repeatVars>>

\* lines 305-308: updates, state = optim.update(g, state, model); the model
\* is updated, the cost is printed, and the loop moves on
SolveUpdate ==
  /\ call = "solve" /\ pc = "update"
  /\ LET upd == optim_update(solve_args.optim, g_params, state)
         new == apply_updates(model, upd[1])
     IN  /\ state' = upd[2]
         /\ model' = new
         /\ opt_model' = Some(new)
         /\ trace' = Append(trace, [op |-> "update", i |-> iter, params |-> model,
                                    state_in |-> state, state_out |-> upd[2]])
  /\ printed' = Append(printed, [i |-> iter, cost |-> f_val])
  /\ iter' = iter + 1
  /\ pc' = "loop"
  /\ UNCHANGED <<call, k, net, solve_args, g_params, f_val, ret>>
  /\ UNCHANGED <<simVars, trajVars, fdVars, ctxVars, codecVars, lossVars, envVars, repeatVars>>

\* line 309: return model, once range(max_iter) is exhausted
SolveReturn ==
  /\ call = "solve" /\ pc = "loop"
  /\ ~SolveContinue
  /\ ret' = Some(model)
  /\ pc' = "returned"
  /\ UNCHANGED <<call, k, net, solve_args, model, state, iter, g_params, f_val,
                 opt_model, trace, printed>>
  /\ UNCHANGED <<simVars, trajVars, fdVars, ctxVars, codecVars, lossVars, envVars, repeatVars>>

NextSolve == SolveGrad \/ SolveLoss \/ SolveUpdate \/ SolveReturn

SpecSolve == InitSolve /\ [][NextSolve]_vars

\* the loop is the only thread of the call: it keeps running while it can
SpecSolveFair == SpecSolve /\ WF_vars(NextSolve)

\* ------------------------------- loss_fn_policy_det, loss_fn_policy_stoch
\* cfg.batch, cfg.samples and cfg.nsteps explored
BatchArgs == {1, 2}
SampleArgs == {1, 2}
StepArgs == {1, 2}

FracAdd(a, b) == Frac(a.num * b.den + b.num * a.den, a.den * b.den)

\* jnp.sum over a vector of fractions
RECURSIVE FracSum(_)
FracSum(xs) == IF xs = <<>> THEN Frac(0, 1) ELSE FracAdd(xs[1], FracSum(Tail(xs)))

\* jnp.mean over a vector of fractions
mean(xs) == LET t == FracSum(xs) IN Frac(t.num, t.den * Len(xs))

\* costs.reshape(batch, samples, nsteps): rows in C order
reshape(cs, batch, samples) ==
  [b \in 1..batch |-> [n \in 1..samples |-> cs[(b - 1) * samples + n]]]

\* loss_fn_policy_det, lines 25-26: sum over the steps, mean over the rows
loss_fn_policy_det(cs) ==
  mean([r \in 1..Len(cs) |-> Frac(SumSeq(cs[r]), 1)])

\* a stochastic loss that adds the samples of a batch element up
loss_fn_policy_stoch_sum(cs, cfg) ==
  LET shaped        == reshape(cs, cfg.batch, cfg.samples)
      sum_costs     == [b \in 1..cfg.batch |->
                          [n \in 1..cfg.samples |-> Frac(SumSeq(shaped[b][n]), 1)]]
      exp_sum_costs == [b \in 1..cfg.batch |-> FracSum(sum_costs[b])]
  IN  mean(exp_sum_costs)

\* loss_fn_policy_stoch, lines 47-50
loss_fn_policy_stoch(cs, cfg) ==
  LET shaped        == reshape(cs, cfg.batch, cfg.samples)
      sum_costs     == [b \in 1..cfg.batch |->
                          [n \in 1..cfg.samples |-> Frac(SumSeq(shaped[b][n]), 1)]]
      exp_sum_costs == [b \in 1..cfg.batch |-> mean(sum_costs[b])]
  IN  mean(exp_sum_costs)

InitLoss ==
  /\ call = "loss_fn_policy" /\ pc = "det" /\ k = 0 /\ net = "zero"
  /\ \E b \in BatchArgs, n \in SampleArgs, t \in StepArgs :
       /\ loss_cfg = [batch |-> b, samples |-> n, nsteps |-> t]
       /\ costs \in [1..(b * n) -> [1..t -> 0..CostMax]]
  /\ loss_det = Frac(0, 1) /\ loss_stoch = Frac(0, 1)
  /\ SimIdle /\ TrajIdle /\ FdIdle /\ CtxIdle /\ CodecIdle /\ SolveIdle /\ EnvIdle
  /\ RepeatIdle

LossDet ==
  /\ call = "loss_fn_policy" /\ pc = "det"
  /\ loss_det' = loss_fn_policy_det(costs)
  /\ pc' = "stoch"
  /\ UNCHANGED <<call, k, net, loss_cfg, costs, loss_stoch>>
  /\ UNCHANGED <<simVars, trajVars, fdVars, ctxVars, codecVars, solveVars, envVars, repeatVars>>

LossStoch ==
  /\ call = "loss_fn_policy" /\ pc = "stoch"
  /\ loss_stoch' = loss_fn_policy_stoch(costs, loss_cfg)
  /\ pc' = "done"
  /\ UNCHANGED <<call, k, net, loss_cfg, costs, loss_det>>
  /\ UNCHANGED <<simVars, trajVars, fdVars, ctxVars, codecVars, solveVars, envVars, repeatVars>>

NextLoss == LossDet \/ LossStoch

SpecLoss == InitLoss /\ [][NextLoss]_vars

\* ------------------------------------------- Humanoid.reset, Humanoid.step
EnvActions == {-1, 0, 1}

\* self._get_obs(data, action)
get_obs(data, action) == <<data.z, action>>

\* data.subtree_com[1]: the centre of mass, <<x, y>>
subtree_com(data) == <<data.x, 0>>

\* self.pipeline_step(data0, action): NFrames physics frames; the torso moves
\* by the action in every frame and sinks while it is pushed forward
pipeline_step(data0, action) ==
  [x |-> data0.x + NFrames * action, z |-> data0.z - action]

\* the dict a reset builds (lines 82-92)
ZeroMetrics ==
  [forward_reward |-> 0, reward_linvel |-> 0, reward_quadctrl |-> 0,
   reward_alive |-> 0, x_position |-> 0, y_position |-> 0,
   distance_from_origin |-> 0, x_velocity |-> 0, y_velocity |-> 0]

InitEnv ==
  /\ call = "Humanoid" /\ pc = "reset" /\ k = 0 /\ net = "zero"
  /\ env_cfg \in [terminate_when_unhealthy : BOOLEAN]
  /\ heap = <<>>
  /\ env_in = NoState /\ env_before = NoState /\ env_ret = NoState
  /\ SimIdle /\ TrajIdle /\ FdIdle /\ CtxIdle /\ CodecIdle /\ SolveIdle /\ LossIdle
  /\ RepeatIdle

\* reset (lines 66-93): a state at a drawn height, with a fresh metrics dict
EnvReset ==
  /\ call = "Humanoid" /\ pc = "reset"
  /\ \E z0 \in (HealthyZMin - 1)..(HealthyZMax + 1) :
       LET data == [x |-> 0, z |-> z0]
       IN  env_ret' = [pipeline_state |-> data, obs |-> get_obs(data, 0),
                       reward |-> 0, done |-> 0, metrics |-> Len(heap) + 1]
  /\ heap' = Append(heap, ZeroMetrics)
  /\ pc' = "step"
  /\ UNCHANGED <<call, k, net, env_cfg, env_in, env_before>>
  /\ UNCHANGED <<simVars, trajVars, fdVars, ctxVars, codecVars, solveVars, lossVars, repeatVars>>

\* the State with its metrics dict read out of the heap
Deref(st) == [st EXCEPT !.metrics = heap[st.metrics]]

\* step (lines 101-142), called as state = env.step(state, action)
EnvStep ==
  /\ call = "Humanoid" /\ pc = "step"
  /\ k < MaxEnvSteps
  /\ \E action \in EnvActions :
       LET st             == env_ret
           data0          == st.pipeline_state
           data           == pipeline_step(data0, action)
           com_before     == subtree_com(data0)
           com_after      == subtree_com(data)
           velocity       == [n \in 1..2 |-> (com_after[n] - com_before[n]) \div NFrames]
           forward_reward == ForwardRewardWeight * velocity[1]
           is_healthy     == IF data.z < HealthyZMin \/ data.z > HealthyZMax
                             THEN 0 ELSE 1
           healthy_reward == IF env_cfg.terminate_when_unhealthy
                             THEN HealthyReward ELSE HealthyReward * is_healthy
           ctrl_cost      == CtrlCostWeight * action * action
           obs            == get_obs(data, action)
           reward         == forward_reward + healthy_reward - ctrl_cost
           done           == IF env_cfg.terminate_when_unhealthy
                             THEN 1 - is_healthy ELSE 0
       IN  /\ env_in' = st
           /\ env_before' = Deref(st)
           \* state.metrics.update(...) writes into the dict the State holds
           /\ heap' = [heap EXCEPT ![st.metrics] =
                         [forward_reward |-> forward_reward,
                          reward_linvel |-> forward_reward,
                          reward_quadctrl |-> -ctrl_cost,
                          reward_alive |-> healthy_reward,
                          x_position |-> com_after[1],
                          y_position |-> com_after[2],
                          distance_from_origin |-> Abs(com_after[1]),
                          x_velocity |-> velocity[1],
                          y_velocity |-> velocity[2]]]
           \* state.replace(...) keeps every other field, metrics among them
           /\ env_ret' = [st EXCEPT !.pipeline_state = data, !.obs = obs,
                                    !.reward = reward, !.done = done]
  /\ k' = k + 1
  /\ UNCHANGED <<call, pc, net, env_cfg>>
  /\ UNCHANGED <<simVars, trajVars, fdVars, ctxVars, codecVars, solveVars, lossVars, repeatVars>>

NextEnv == EnvReset \/ EnvStep

SpecEnv == InitEnv /\ [][NextEnv]_vars

\* -------------------------------------- controlled_simulate, called twice
\* another initial state for a batch element: the other initial velocity
other_init(x) == <<x[1], CHOOSE v \in InitVels : v # x[2]>>

InitRepeat == InitSim /\ nsteps = MaxSteps

\* the caller keeps what the call returned and calls again with the same
\* context, network and key, and with at most one initial state replaced;
\* the locals of the new call are set by its own first lines
CallAgain ==
  /\ call = "controlled_simulate" /\ pc = "done"
  /\ calls_made = 0
  /\ calls_made' = 1
  /\ prev_out' = out
  /\ \E c \in {{}} \cup {{b} : b \in Batch} :
       /\ changed' = c
       /\ x_inits' = [b \in Batch |-> IF b \in c THEN other_init(x_inits[b])
                                                 ELSE x_inits[b]]
  /\ pc' = "start"
  /\ k' = 0
  /\ res' = [b \in Batch |-> <<>>]
  /\ out' = [b \in Batch |-> EmptyOut]
  /\ nquery' = [b \in Batch |-> 0]
  /\ ncost' = [b \in Batch |-> 0]
  /\ nphys' = [b \in Batch |-> 0]
  /\ UNCHANGED <<call, net, nsteps, key0, dx, rkey>>
  /\ UNCHANGED <<trajVars, fdVars, ctxVars, codecVars, solveVars, lossVars, envVars>>

NextRepeat == SetInit \/ ScanStep \/ Finish \/ CallAgain

SpecRepeat == InitRepeat /\ [][NextRepeat]_vars

\* ------------------------------------------------------------------ claims
SimReturned == call = "controlled_simulate" /\ pc = "done"

\* the data a scan row was recorded from
RowData(r) == [qpos |-> r.x[1], qvel |-> r.x[2], ctrl |-> r.ctrl, time |-> r.t]

\* C1 as stated: for horizon H = nsteps the returned cost sequence holds H
\* running-cost entries followed by one terminal-cost entry (length H+1).
C1_CostsLengthHPlus1 ==
  SimReturned =>
    \A b \in Batch : Len(out[b].costs) = nsteps + 1 /\ ncost[b] = nsteps

\* C1 amended: the returned cost sequence holds nsteps-1 running-cost
\* entries followed by exactly one terminal-cost entry, so its length is
\* nsteps.
C1_CostsLengthH ==
  SimReturned =>
    \A b \in Batch :
      /\ Len(out[b].costs) = nsteps
      /\ ncost[b] = nsteps - 1
      /\ \A i \in 1..(nsteps - 1) : out[b].costs[i] = res[b][i].cost
      /\ out[b].costs[nsteps] = terminal_cost(dx[b])

C1_Witness == SimReturned /\ nsteps = 3 /\ \E b \in Batch : out[b].costs[1] > 0

\* C2 as stated: without a termination predicate the rollout performs
\* exactly nsteps iterations of (query controller, compute cost, advance
\* physics, record) for every batch element.
C2_ExactlyHorizonIterations ==
  SimReturned =>
    \A b \in Batch :
      /\ nquery[b] = nsteps /\ ncost[b] = nsteps
      /\ Len(out[b].u) = nsteps

\* C2 amended: whatever states are visited, the rollout performs exactly
\* nsteps-1 iterations of (query, cost, physics step, record) for every
\* batch element, after one physics step made by set_init without a
\* controller query or a cost.
C2_HorizonMinusOneIterations ==
  SimReturned =>
    /\ k = nsteps - 1
    /\ \A b \in Batch :
         /\ nquery[b] = nsteps - 1 /\ ncost[b] = nsteps - 1
         /\ Len(res[b]) = nsteps - 1 /\ Len(out[b].u) = nsteps - 1
         /\ nphys[b] = nsteps

\* a returned rollout that went through a terminal state before its end
C2_Witness ==
  SimReturned /\ nsteps = 3
    /\ \E b \in Batch : is_terminal(RowData(res[b][1])) /\ nquery[b] = 2

\* C3 as stated: once is_terminal holds for a batch element at step k
\* before the horizon, nothing is produced for that element after step k.
C3_TerminalEndsRollout ==
  call = "controlled_simulate" =>
    \A b \in Batch : \A j \in 1..Len(res[b]) :
      is_terminal(RowData(res[b][j])) => Len(res[b]) = j

\* the data decoded from an encoded initial state, no physics step applied
InitData(x) == [make_data EXCEPT !.qpos = x[1], !.qvel = x[2]]

\* C4 as stated: the running cost recorded at step 0 is the cost of the
\* supplied initial state itself (with the control chosen there) times dt.
C4_FirstCostOfInitialState ==
  call = "controlled_simulate" =>
    \A b \in Batch :
      Len(res[b]) >= 1 =>
        res[b][1].cost
          = LET dc == controller(net, InitData(x_inits[b]), split(key0)[2])
            IN  (run_cost(dc) + control_cost(dc)) * DT

\* the per-step cost of controlled_simulate: callbacks on the post-control,
\* pre-step state, times dt
SimStepCostScaled ==
  (call = "controlled_simulate" /\ k' = k + 1) =>
    \A b \in Batch :
      LET dc == controller(net, dx[b], split(rkey[b])[2])
      IN  Last(res'[b]).cost = (run_cost(dc) + control_cost(dc)) * DT

\* the states of one step of simulate_trajectory: post-control pre-step,
\* and post-step
TrajStepStates ==
  {set_control(tdx, tdx'.ctrl), tdx'}

\* C5 as stated: every per-step cost of controlled_simulate and of
\* simulate_trajectory is the cost callbacks on one state of that step
\* (post-control pre-step, or post-step) multiplied by dt.
C5_EveryStepCostScaled ==
  [][/\ SimStepCostScaled
     /\ (call = "simulate_trajectory" /\ k' = k + 1) =>
          \E d \in TrajStepStates : Last(tcosts') = running_cost_fn(d) * DT]_vars

\* C5 amended: every per-step cost of controlled_simulate is the running
\* and control cost callbacks on the post-control pre-step state times dt;
\* every per-step cost of simulate_trajectory is running_cost_fn on the
\* post-step state, not multiplied by dt.
C5_StepCosts ==
  [][/\ SimStepCostScaled
     /\ (call = "simulate_trajectory" /\ k' = k + 1) =>
          Last(tcosts') = running_cost_fn(tdx')]_vars

C5_Witness ==
  /\ call = "controlled_simulate" /\ k = 2
  /\ \E b \in Batch : res[b][2].cost > 0 /\ res[b][2].ctrl # 0

\* ---------------------------------------------------------- claims, FD part
CacheBuilt == call = "step_fn" /\ fd_cache.status = "ok"
BwdReturned == call = "step_fn" /\ pc = "done"

\* the target fields build_fd_cache works with
EffectiveFields ==
  IF target_fields.none THEN {"qpos", "qvel", "ctrl"} ELSE target_fields.names

\* the 0-based flat indices held by inner_idx
InnerSet == {fd_cache.inner_idx[n] : n \in 1..Len(fd_cache.inner_idx)}

\* the 0-based flat indices of leaf i (1-based leaf number)
FlatRange(i) ==
  {j \in 0..(FlatDim(layout) - 1) :
     FlatOffset(layout, i) <= j /\ j < FlatOffset(layout, i) + layout[i].size}

\* the 0-based flat indices of the leaves whose path holds a target name
TargetIndices ==
  UNION {FlatRange(i) : i \in {n \in 1..Len(layout) :
                                \E lv \in 1..Len(layout[n].path) :
                                    layout[n].path[lv] \in EffectiveFields}}

\* C6: for every accepted reference state and target-field set,
\* sum(sensitivity_mask) = len(inner_idx), the mask has the length of the
\* flattened state and is 1 exactly at inner_idx, and a flat index is in
\* inner_idx iff it lies in the flat range of a leaf whose path contains a
\* requested target field name.
C6_MaskCoverage ==
  CacheBuilt =>
    /\ SumSeq(fd_cache.sensitivity_mask) = Len(fd_cache.inner_idx)
    /\ Len(fd_cache.sensitivity_mask) = FlatDim(layout)
    /\ fd_cache.dx_size = FlatDim(layout)
    /\ \A j \in 0..(FlatDim(layout) - 1) :
         At(fd_cache.sensitivity_mask, j) = (IF j \in InnerSet THEN 1 ELSE 0)
    /\ InnerSet = TargetIndices

C6_Witness ==
  /\ CacheBuilt /\ layout = LayoutFull
  /\ target_fields.names = {"contact"} /\ fd_cache.inner_idx = <<6>>

\* C7: the state gradient returned by step_fn_bwd is zero at every flat
\* index outside inner_idx.
C7_GradientZeroOutsideInner ==
  BwdReturned =>
    \A j \in 0..(FlatDim(layout) - 1) :
      j \notin InnerSet => At(ravel_pytree(layout, d_x), j) = 0

C7_Witness ==
  /\ BwdReturned
  /\ \E j \in InnerSet : At(ravel_pytree(layout, d_x), j) # 0
  /\ \E j \in 0..(FlatDim(layout) - 1) : j \notin InnerSet

\* C8 as stated: build_fd_cache never fails because of a target field name
\* that matches no leaf; when no name matches it returns an empty inner_idx
\* and an all-zero mask.
C8_UnmatchedNamesIgnored ==
  (call = "step_fn" /\ pc # "build") =>
    /\ fd_cache.status = "ok"
    /\ InnerSet = TargetIndices
    /\ SumSeq(fd_cache.sensitivity_mask) = Cardinality(TargetIndices)

\* the 1-based flat positions of the integer (float0) leaves
Float0Positions ==
  UNION {{j + 1 : j \in FlatRange(i)} : i \in {n \in 1..Len(layout) : layout[n].int}}

RECURSIVE DotOutside(_, _, _, _)
DotOutside(a, b, n, skip) ==
  IF n = 0 THEN 0
  ELSE DotOutside(a, b, n - 1, skip) + (IF n \in skip THEN 0 ELSE a[n] * b[n])

\* C9: every leaf of g that belongs to an integer leaf of the state is
\* replaced by zeros of that leaf's shape before g is flattened: the
\* flattened g has the length and leaf layout of the flattened state, and
\* such a leaf contributes zero to the control and the state gradient.
C9_Float0Zeroed ==
  (call = "step_fn" /\ pc \in {"fd", "done"}) =>
    /\ Len(g_array) = Len(ravel_pytree(layout, dx_in))
    /\ \A i \in 1..Len(layout) : \A j \in FlatRange(i) :
         At(g_array, j) = IF layout[i].int THEN 0
                          ELSE g[i].val[j - FlatOffset(layout, i) + 1]
    /\ pc = "done" =>
         /\ \A i \in 1..Len(d_u) :
              d_u[i] = DotOutside(Ju_array[i], g_array, Len(g_array), Float0Positions)
         /\ \A n \in 1..Len(Jx_rows) :
              At(ravel_pytree(layout, d_x), At(fd_cache.inner_idx, n - 1))
                = LET v == DotOutside(Jx_rows[n], g_array, Len(g_array), Float0Positions)
                  IN  IF At(fd_cache.inner_idx, n - 1) + 1 \in Float0Positions
                      THEN Trunc(v) * Unit ELSE v

\* the Jacobian has an entry on the integer leaf, which meets a float0 leaf of g
C9_Witness ==
  /\ BwdReturned /\ layout = LayoutFull
  /\ \E n \in 1..Len(Jx_rows) : \E j \in Float0Positions : Jx_rows[n][j] # 0

\* C10: each backward pass runs the physics step exactly
\* num_u_dims + |inner_idx| times, one per control dimension and one per
\* index of inner_idx.
C10_EvaluationCount ==
  BwdReturned =>
    /\ nevals = fd_cache.num_u_dims + Len(fd_cache.inner_idx)
    /\ Len(Ju_array) = fd_cache.num_u_dims
    /\ Len(Jx_rows) = Len(fd_cache.inner_idx)
    /\ fd_cache.num_u_dims = Len(u_in)

C10_Witness ==
  /\ BwdReturned /\ fd_cache.num_u_dims = 2
  /\ Len(fd_cache.inner_idx) = 4 /\ nevals = 6

\* the upstream gradient as a flat vector, zero on integer leaves
GFlat ==
  Concat([i \in 1..Len(layout) |->
            IF layout[i].int THEN ZeroVec(layout[i].size) ELSE g[i].val])

\* the flattened output of step(state, control)
StepFlat(tree, u) == ravel_pytree(layout, step_fn_tree(layout, tree, u))

\* sum_j mask[j] * (perturbed[j] - base[j]) / eps * gv[j], j up to n
RECURSIVE FdVjp(_, _, _, _)
FdVjp(perturbed, base, gv, n) ==
  IF n = 0 THEN 0
  ELSE FdVjp(perturbed, base, gv, n - 1)
         + ((fd_cache.sensitivity_mask[n] * (perturbed[n] - base[n])) \div Eps)
             * gv[n]

\* the control with coordinate i (0-based) moved by eps
ControlPlus(i) == [n \in 1..Len(u_in) |-> u_in[n] + (IF n = i + 1 THEN Eps ELSE 0)]

\* the state with flat coordinate kk (0-based) moved by eps
StatePlus(kk) ==
  unravel_dx(layout,
    [j \in 1..FlatDim(layout) |->
       ravel_pytree(layout, dx_in)[j] + (IF j = kk + 1 THEN Eps ELSE 0)])

\* C11: the backward pass returns the vector-Jacobian product of the
\* forward-difference Jacobians: control gradient[i] is the masked
\* difference quotient of step(state, control + eps*e_i) against g, and
\* state gradient[k], k in inner_idx, that of step(state + eps*e_k, control);
\* each evaluation moves one coordinate and leaves the other argument alone.
C11_ForwardDifferenceVjp ==
  BwdReturned =>
    LET base == StepFlat(dx_in, u_in)
        gv == GFlat
        dim == FlatDim(layout)
        ints == Float0Positions
        d_x_flat == ravel_pytree(layout, d_x)
    IN  /\ Len(d_u) = Len(u_in)
        /\ \A i \in 0..(Len(u_in) - 1) :
             At(d_u, i) = FdVjp(StepFlat(dx_in, ControlPlus(i)), base, gv, dim)
        /\ \A kk \in InnerSet :
             At(d_x_flat, kk)
               = LET v == FdVjp(StepFlat(StatePlus(kk), u_in), base, gv, dim)
                 IN  IF kk + 1 \in ints THEN Trunc(v) * Unit ELSE v

C11_Witness ==
  /\ BwdReturned /\ layout = LayoutFull
  /\ At(d_u, 0) # 0 /\ At(d_u, 1) # 0
  /\ \E kk \in InnerSet : At(ravel_pytree(layout, d_x), kk) # 0

\* the 0-based flat indices of the ctrl leaf
CtrlIndices == FlatRange(LeafOf(layout, "ctrl"))

\* C20: step_fn overwrites ctrl with u, so perturbing a ctrl flat index of
\* the input state changes nothing: the Jacobian row of every ctrl index is
\* zero and the returned state gradient is zero at every ctrl index, even
\* though ctrl is among the target fields and its indices are in inner_idx.
C20_CtrlGradientZero ==
  (BwdReturned /\ "ctrl" \in EffectiveFields) =>
    /\ CtrlIndices \subseteq InnerSet
    /\ \A n \in 1..Len(Jx_rows) :
         At(fdx_indices, n - 1) \in CtrlIndices
           => Jx_rows[n] = ZeroVec(FlatDim(layout))
    /\ \A kk \in CtrlIndices : At(ravel_pytree(layout, d_x), kk) = 0

C20_Witness ==
  /\ BwdReturned /\ "ctrl" \in EffectiveFields /\ layout = LayoutFull
  /\ \E n \in 1..Len(Jx_rows) : At(fdx_indices, n - 1) \in CtrlIndices
  /\ \E kk \in InnerSet \ CtrlIndices : At(ravel_pytree(layout, d_x), kk) # 0

\* --------------------------------------------------- claims, Context part
\* x^T R x for an integer vector x
QuadForm(R, x) ==
  x[1] * (R[1][1] * x[1] + R[1][2] * x[2]) + x[2] * (R[2][1] * x[1] + R[2][2] * x[2])

\* R is positive definite: x^T R x > 0 for every x # 0; for entries within
\* RMax a violating direction, if any, lies within 2*RMax
PositiveDefinite(R) ==
  \A x1 \in -(2 * RMax)..(2 * RMax), x2 \in -(2 * RMax)..(2 * RMax) :
     (x1 # 0 \/ x2 # 0) => QuadForm(R, <<x1, x2>>) > 0

\* C12: a Context whose R is not positive definite is never constructed (the
\* constructor fails with the validation error), and one whose R is positive
\* definite is constructed without error.
C12_ContextIffPositiveDefinite ==
  /\ ctx.made => PositiveDefinite(ctx.R)
  /\ (call = "Context" /\ pc = "AssertionError") =>
        (~PositiveDefinite(cfg_R) /\ ~ctx.made)
  /\ (call = "Context" /\ pc = "constructed") =>
        (PositiveDefinite(cfg_R) /\ ctx.made /\ ctx.R = cfg_R)

\* a singular, positive semidefinite R has been rejected
C12_Witness ==
  /\ call = "Context" /\ pc = "AssertionError"
  /\ cfg_R = <<<<1, 1>>, <<1, 1>>>>

\* ------------------------------------------------ claims, ravel_pytree part
CodecDone == call = "ravel_pytree" /\ pc = "done"

\* the 1-based flat positions of the integer leaves of the raveled layout
IntPositions ==
  {j \in 1..FlatDim(rlayout) :
     \E i \in 1..Len(rlayout) :
        /\ rlayout[i].int
        /\ FlatOffset(rlayout, i) < j /\ j <= FlatOffset(rlayout, i) + rlayout[i].size}

\* C15 as stated: flatten(unflatten(v)) == v for every flat vector v, and
\* unflatten(flatten(s)) reproduces every field of s, integer fields included.
C15_RoundTripBijection ==
  CodecDone => (v_back = v_in /\ s_back = s_in)

\* C15 amended: unflatten(flatten(s)) reproduces every field of s, integer
\* fields included; flatten(unflatten(v)) equals v at every position of a
\* floating leaf and is v truncated to a whole number at every position of
\* an integer leaf, so it equals v exactly when v is whole there.
C15_RoundTripUpToIntegerCast ==
  CodecDone =>
    /\ s_back = s_in
    /\ Len(v_back) = Len(v_in)
    /\ \A j \in 1..Len(v_in) :
         v_back[j] = IF j \in IntPositions THEN Trunc(v_in[j]) * Unit ELSE v_in[j]
    /\ (\A j \in IntPositions : v_in[j] % Unit = 0) => v_back = v_in

\* a vector with a fraction at an integer leaf came back changed, next to
\* a state that came back whole
C15_Witness ==
  /\ CodecDone /\ rlayout = LayoutFull
  /\ \E j \in IntPositions : v_in[j] % Unit # 0
  /\ v_back # v_in /\ s_back = s_in

\* ------------------------------------------------ claims, Policy.solve part
SolveReturned == call = "solve" /\ pc = "returned"

\* the records of the trace with the given operation
Calls(op) == SelectSeq(trace, LAMBDA r : r.op = op)

\* the input model after n updates of the optimizer, each fed the state the
\* previous one returned
RECURSIVE ModelAfter(_)
ModelAfter(n) ==
  IF n = 0
  THEN [model |-> solve_args.model, state |-> solve_args.state]
  ELSE LET prev == ModelAfter(n - 1)
           upd  == optim_update(solve_args.optim,
                                grad_loss(prev.model, solve_args.target), prev.state)
       IN  [model |-> prev.model + upd[1], state |-> upd[2]]

\* C16: solve terminates after exactly max_iter iterations for every
\* max_iter >= 0: it returns, it has made exactly max_iter updates whatever
\* the loss or the gradient was, and it returns the parameters after the
\* last update (the input parameters when max_iter = 0).
C16_ExactlyMaxIterUpdates ==
  /\ [](SolveReturned =>
          /\ iter = solve_args.max_iter
          /\ Len(Calls("update")) = solve_args.max_iter
          /\ Len(printed) = solve_args.max_iter
          /\ ret = Some(ModelAfter(solve_args.max_iter).model)
          /\ (solve_args.max_iter = 0 => ret = Some(solve_args.model)))
  /\ (call = "solve" ~> SolveReturned)

\* the loop ran on for two iterations at the minimum of the loss
C16_Witness ==
  /\ SolveReturned /\ solve_args.max_iter = 3
  /\ trace[4].params = solve_args.target /\ g_params = 0
  /\ Len(Calls("update")) = 3

\* the operation at position n of an iteration (1 grad_loss, 2 loss, 3 update)
OpAt(n) == IF n % 3 = 1 THEN "grad_loss" ELSE IF n % 3 = 2 THEN "loss" ELSE "update"

\* C19: every iteration computes its gradient, then its loss, then its
\* update, all on the parameters the iteration started with; the loss it
\* reports is that of the parameters before the update, evaluated once per
\* iteration; and the optimizer state returned by the update of iteration i
\* is the one handed to the update of iteration i+1.
C19_GradLossUpdateOrder ==
  call = "solve" =>
    /\ \A n \in 1..Len(trace) :
         /\ trace[n].op = OpAt(n)
         /\ trace[n].i = (n - 1) \div 3
         /\ trace[n].params = ModelAfter((n - 1) \div 3).model
    /\ \A n \in 1..Len(printed) :
         /\ printed[n].i = n - 1
         /\ printed[n].cost = loss(ModelAfter(n - 1).model, solve_args.target)
         /\ Cardinality({m \in 1..Len(trace) :
                           trace[m].op = "loss" /\ trace[m].i = n - 1}) = 1
    /\ \A n \in 1..Len(Calls("update")) :
         Calls("update")[n].state_in
           = IF n = 1 THEN solve_args.state ELSE Calls("update")[n - 1].state_out

\* three iterations with an optimizer whose state changes at every update
C19_Witness ==
  /\ SolveReturned /\ solve_args.optim = "momentum" /\ Len(printed) = 3
  /\ printed[1].cost > printed[2].cost /\ printed[2].cost > 0
  /\ Calls("update")[3].state_in.count = 2

\* ---------------------------------------------- claims, loss functions part
LossDone == call = "loss_fn_policy" /\ pc = "done"

\* two fractions denote the same number
FracEq(a, b) == a.num * b.den = b.num * a.den

\* the cost rows of the samples of every batch element are equal
RowsEqualPerElement ==
  \A b \in 1..loss_cfg.batch : \A n \in 1..loss_cfg.samples :
     costs[(b - 1) * loss_cfg.samples + n] = costs[(b - 1) * loss_cfg.samples + 1]

C18_StepLeavesInputUnchanged ==
  (call = "Humanoid" /\ k > 0) =>
    /\ heap[env_in.metrics] = env_before.metrics
    /\ [env_in EXCEPT !.metrics = 0] = [env_before EXCEPT !.metrics = 0]

\* ------------------------------------ claims, controlled_simulate twice
SecondReturned == SimReturned /\ calls_made = 1

C14_BatchIndependence ==
  SecondReturned => \A b \in Batch \ changed : out[b] = prev_out[b]

\* the changed element came back different, next to one that did not change
C14_Witness ==
  /\ SecondReturned /\ changed # {}
  /\ \E b \in changed : out[b].x # prev_out[b].x /\ out[b].costs # prev_out[b].costs
  /\ \E b \in Batch \ changed : out[b].costs[1] > 0

\* ------------------------------------- claims, FD part: the role of the mask
\* the 1-based flat positions of floating leaves that are not in inner_idx
OuterPositions ==
  {j \in 1..FlatDim(layout) : (j - 1) \notin InnerSet /\ j \notin Float0Positions}

\* the flattened upstream gradients that agree with g on inner_idx: g with
\* any values at the positions outside inner_idx
AgreeingGradients ==
  LET gv == GFlat
      outer == OuterPositions
      dim == FlatDim(layout)
  IN  {[j \in 1..dim |-> IF j \in outer THEN alt[j] ELSE gv[j]] :
         alt \in [outer -> GVals]}

\* C21: the control and state gradients of the backward pass depend on the
\* upstream gradient only through its components at inner_idx: every
\* upstream gradient that agrees with g on inner_idx and differs elsewhere
\* gives the gradients that g gave.
C21_GradientsReadOnlyInnerOfG ==
  BwdReturned =>
    LET dim == FlatDim(layout)
        ints == Float0Positions
        d_x_flat == ravel_pytree(layout, d_x)
    IN  \A g2 \in AgreeingGradients :
          /\ \A n \in 1..Len(Ju_array) : DotUpTo(Ju_array[n], g2, dim) = d_u[n]
          /\ \A n \in 1..Len(Jx_rows) :
               At(d_x_flat, At(fd_cache.inner_idx, n - 1))
                 = LET v == DotUpTo(Jx_rows[n], g2, dim)
                   IN  IF At(fd_cache.inner_idx, n - 1) + 1 \in ints
                       THEN Trunc(v) * Unit ELSE v

\* the step output moves with the control at a position outside inner_idx
\* (qacc), where the upstream gradient is not zero
C21_Witness ==
  /\ BwdReturned /\ layout = LayoutSmall /\ target_fields.none
  /\ At(d_u, 0) # 0
  /\ \E j \in OuterPositions :
       /\ StepFlat(dx_in, ControlPlus(0))[j] # StepFlat(dx_in, u_in)[j]
       /\ GFlat[j] # 0

\* ------------------------------- claims, controlled_simulate: keys and time
\* the key carried by the scan after n iterations, from the key argument alone
RECURSIVE KeyAfter(_, _)
KeyAfter(key, n) == IF n = 0 THEN key ELSE split(KeyAfter(key, n - 1))[1]

\* the subkey handed to the controller in iteration n (1-based)
SubkeyAt(key, n) == split(KeyAfter(key, n - 1))[2]

\* C22: every batch element starts its scan from the key argument and
\* splits it the same way: after k iterations every element carries the
\* same key, and in iteration n every element handed the controller the
\* same subkey, both fixed by the key argument and the step index alone.
C22_SharedKeySequence ==
  (call = "controlled_simulate" /\ pc \in {"scan", "done"}) =>
    \A b \in Batch :
      /\ rkey[b] = KeyAfter(key0, k)
      /\ \A n \in 1..Len(res[b]) :
           res[b][n].ctrl
             = controller(net, IF n = 1 THEN set_init(x_inits[b])
                               ELSE RowData(res[b][n - 1]),
                          SubkeyAt(key0, n)).ctrl

\* two batch elements in different states drew the same, changing controls
C22_Witness ==
  /\ SimReturned /\ nsteps = 3 /\ net = "noisy"
  /\ out[1].x # out[2].x
  /\ out[1].u = out[2].u /\ out[1].u[1] # out[1].u[2]

\* the state of batch element b after n physics steps from the decoded
\* x_init: the first step is made without a control, each later one after
\* the controller was queried with the subkey of its iteration
RECURSIVE PhysAfter(_, _)
PhysAfter(b, n) ==
  IF n = 0 THEN InitData(x_inits[b])
  ELSE IF n = 1 THEN mjx_step(PhysAfter(b, 0))
  ELSE mjx_step(controller(net, PhysAfter(b, n - 1), SubkeyAt(key0, n - 1)))

\* C23: for nsteps = N the returned state and time sequences both have N
\* entries; entry 0 is the supplied x_init paired with time dt, and entry
\* kk, for kk in 1..N-1, is the encoding of the state reached after exactly
\* kk+1 physics steps from the decoded x_init (one in set_init, kk in the
\* scan) paired with that state's simulator time, so entries 0 and 1 are two
\* physics steps apart and later neighbours one step.
C23_TrajectoryEntries ==
  SimReturned =>
    \A b \in Batch :
      /\ Len(out[b].x) = nsteps /\ Len(out[b].t) = nsteps
      /\ out[b].x[1] = x_inits[b] /\ out[b].t[1] = DT
      /\ nphys[b] = nsteps
      /\ \A kk \in 1..(nsteps - 1) :
           /\ out[b].x[kk + 1] = state_encoder(PhysAfter(b, kk + 1))
           /\ out[b].t[kk + 1] = PhysAfter(b, kk + 1).time
           /\ out[b].t[kk + 1] = (kk + 1) * DT

\* entry 1 is not the state one physics step after x_init
C23_Witness ==
  /\ SimReturned /\ nsteps = 3
  /\ \E b \in Batch :
       /\ out[b].x[2] # state_encoder(PhysAfter(b, 1))
       /\ out[b].x[3] # out[b].x[2]
       /\ out[b].t = <<DT, 2 * DT, 3 * DT>>

====
